---------------------------- MODULE Spec2Model ----------------------------
(***************************************************************************)
(* A model of the ARGB LED-matrix library (src/argb/argb.cpp, argb.h):     *)
(* the two framebuffers and the buffer selector, the pixel compositor      *)
(* (SetPixel, Fill, ScrollLeft), the shape rasterizer (lines, rectangles,  *)
(* circles, digits, characters) and the timer interrupt with its clock.    *)
(*                                                                         *)
(* Integer widths are those of the AVR target the library is written for:  *)
(* byte = 8 bit unsigned, char = 8 bit signed, int (POINT) = 16 bit        *)
(* signed, unsigned int = 16 bit unsigned.  An ARGB value is modelled by   *)
(* its four bytes in memory order (little endian): <<B, G, R, A>>.         *)
(***************************************************************************)
EXTENDS Integers, Sequences, FiniteSets, TLC

\* ------------------------------------------------------------ constants

ARGB_PANELS == 1
ARGB_MAX_X == 8 * ARGB_PANELS
ARGB_MAX_Y == 8
ARGB_FRAMERATE == 125
FBSIZE == ARGB_MAX_X * ARGB_MAX_Y * 3
DAY_SECONDS == 86400

\* ------------------------------------------------------------ bounds

\* how far outside the buffer the enumerated coordinates reach
MaxOff == 1
\* the background patterns the buffers start from are 0..MaxBg
MaxBg == 2
\* the longest enumerated span is MaxLen (255 is enumerated besides)
MaxLen == 10
\* the enumerated radii are 0..MaxRadius (and two that wrap the char counter)
MaxRadius == 3
\* seconds the clock is followed for after it was last set
MaxSeconds == 1
\* the character tables considered are 0..MaxFont
MaxFont == 1
MaxFrames == 2
MaxFades == 256
MaxCalls == 2

\* ------------------------------------------------------------ integer widths

ToByte(v) == v % 256
ToChar(v) == ((v + 128) % 256) - 128
ToUInt(v) == v % 65536

\* bit n of byte v
Bit(v, n) == (v \div (2 ^ n)) % 2

\* ------------------------------------------------------------ state

VARIABLES
  framebuffer_1,    \* main buffer: [0..FBSIZE-1 -> byte]
  framebuffer_2,    \* off-screen buffer
  framebuffer,      \* RGBDisplay::framebuffer: 1 or 2, the buffer drawn into
  layout,           \* how the linker placed the two arrays, once a call depended on it
  stray,            \* TRUE once a byte outside both arrays was written
  bg,               \* the pattern the buffers held before the call
  last,             \* the foreground call made: [op, args, color]
  calls,            \* the SetPixel calls it issued, in order: Seq(<<x, y>>)
  ret,              \* the value it returned (DrawChar)
  font,             \* which character table font.c holds (its data is not in src/)
  ncalls,           \* how many foreground calls have been made
  pcCopy,           \* CopyAltToMain in steps: the bytes its memcpy has copied
  line,             \* ISR: static byte line
  outbuf,           \* ISR: transmit cursor, as an offset into framebuffer_1
  sent,             \* ISR: the bytes serialized by the last invocation
  rowsel,           \* PORT_Lines row-select bits
  led,              \* PORT_LED bit
  ain,              \* the analog level ADCH reads
  ARGB_user_frame,
  ARGB_clock_ms,
  ARGB_clock_tod,
  ARGB_adcdata,
  shown,            \* per row, the bytes last serialized for it
  iflag,            \* the global interrupt enable flag (cli / sei)
  pcSet,            \* position of the foreground inside ARGB_SetTime
  new_tod,          \* the argument of the ARGB_SetTime call in progress
  secs              \* seconds elapsed since the clock was last set (bounded)

drawVars == <<framebuffer_1, framebuffer_2, framebuffer, layout, stray, bg,
              last, calls, ret, font, ncalls, pcCopy>>
scanVars == <<line, outbuf, sent, rowsel, led, ain, ARGB_user_frame,
              ARGB_clock_ms, ARGB_clock_tod, ARGB_adcdata, shown>>
timeVars == <<iflag, pcSet, new_tod, secs>>
vars == <<drawVars, scanVars, timeVars>>

\* ------------------------------------------------------------ colours

\* argb.h MakeARGB: p[0] = b, p[1] = g, p[2] = r, p[3] = a
MakeARGB(a, r, g, b) == <<b, g, r, a>>

\* (byte)(color >> n) of a little-endian 32 bit value, n a multiple of 8
ShiftByte(color, n) == color[(n \div 8) + 1]

\* ------------------------------------------------------------ memory

Layouts == {"fb1_fb2", "fb2_fb1", "apart"}

\* Where the byte at offset idx from the start of array buf lives:
\* <<array, offset>>, array 0 when it is in neither framebuffer.  Inside
\* the array the access is defined; outside it is undefined behaviour,
\* whose outcome depends on what the linker put next to the array (lay).
Land(lay, buf, idx) ==
  IF idx >= 0 /\ idx < FBSIZE THEN <<buf, idx>>
  ELSE IF buf = 1 /\ lay = "fb1_fb2" /\ idx >= FBSIZE /\ idx < 2 * FBSIZE
    THEN <<2, idx - FBSIZE>>
  ELSE IF buf = 2 /\ lay = "fb1_fb2" /\ idx < 0 /\ idx >= -FBSIZE
    THEN <<1, idx + FBSIZE>>
  ELSE IF buf = 2 /\ lay = "fb2_fb1" /\ idx >= FBSIZE /\ idx < 2 * FBSIZE
    THEN <<1, idx - FBSIZE>>
  ELSE IF buf = 1 /\ lay = "fb2_fb1" /\ idx < 0 /\ idx >= -FBSIZE
    THEN <<2, idx + FBSIZE>>
  ELSE <<0, 0>>

\* d is the memory a call works on:
\*   [fb1, fb2, stray, calls, oob, layout]
\* oob: the call wrote outside the array it was given.
Peek(d, buf, idx) ==
  LET at == Land(d.layout, buf, idx)
  IN  IF at[1] = 1 THEN d.fb1[at[2]]
      ELSE IF at[1] = 2 THEN d.fb2[at[2]]
      ELSE 0   \* unknown memory; only ever written back to the same place

Poke(d, buf, idx, val) ==
  LET at == Land(d.layout, buf, idx)
      dd == IF at[1] = buf THEN d ELSE [d EXCEPT !.oob = TRUE]
  IN  IF at[1] = 1 THEN [dd EXCEPT !.fb1[at[2]] = val]
      ELSE IF at[1] = 2 THEN [dd EXCEPT !.fb2[at[2]] = val]
      ELSE [dd EXCEPT !.stray = TRUE]

\* Continue with K once the memory d has been worked out: the statements of
\* a loop body run one after the other.  (K(d) either way; the test only
\* makes TLC evaluate d before it goes on.)
Then(d, K(_)) == IF d.oob THEN K(d) ELSE K(d)

\* ------------------------------------------------------------ SetPixel

\* BlendChannel with the two weights exchanged
BlendChannel_swapped(a1, a, bgc, c) == ToByte(ToUInt(a * bgc + a1 * c) \div 256)

\* BlendChannel rounding to nearest instead of truncating
BlendChannel_rounded(a1, a, bgc, c) ==
  ToByte(ToUInt(a1 * bgc + a * c + 128) \div 256)

\* one channel of the alpha blend, in unsigned int arithmetic
BlendChannel(a1, a, bgc, c) == ToByte(ToUInt(a1 * bgc + a * c) \div 256)

\* offset of the blue byte of pixel (x, y)
PixelOffset(x, y) == 2 + 3 * ((ARGB_MAX_X - 1 - x) + (y * ARGB_MAX_X))

SetPixel(d, buf, x, y, color) ==
  LET pb  == PixelOffset(x, y)
      c_b == color[1]
      c_g == color[2]
      c_r == color[3]
      a   == color[4]
      a1  == 255 - a
      d0  == [d EXCEPT !.calls = Append(@, <<x, y>>)]
  IN  IF a1 # 0
        THEN LET dB == Poke(d0, buf, pb, BlendChannel(a1, a, Peek(d0, buf, pb), c_b))
                 dG == Poke(dB, buf, pb - 1,
                            BlendChannel(a1, a, Peek(dB, buf, pb - 1), c_g))
             IN  Poke(dG, buf, pb - 2,
                      BlendChannel(a1, a, Peek(dG, buf, pb - 2), c_r))
        ELSE Poke(Poke(Poke(d0, buf, pb, c_b), buf, pb - 1, c_g), buf, pb - 2, c_r)


\* ------------------------------------------------------------ whole buffer

\* memset(framebuffer, 0, ARGB_MAX_X * ARGB_MAX_Y * 3)
Clear(d, buf) ==
  IF buf = 1 THEN [d EXCEPT !.fb1 = [i \in 0 .. (FBSIZE - 1) |-> 0]]
             ELSE [d EXCEPT !.fb2 = [i \in 0 .. (FBSIZE - 1) |-> 0]]

\* memcpy(framebuffer_1, framebuffer_2, ARGB_MAX_X * ARGB_MAX_Y * 3)
CopyAltToMain(d) == [d EXCEPT !.fb1 = [i \in 0 .. (FBSIZE - 1) |-> d.fb2[i]]]

\* memcpy(framebuffer_2, framebuffer_1, ARGB_MAX_X * ARGB_MAX_Y * 3)
CopyMainToAlt(d) == [d EXCEPT !.fb2 = [i \in 0 .. (FBSIZE - 1) |-> d.fb1[i]]]

\* the three channel bytes Fill stores, in memory order
FillBytes(color) ==
  LET b == ShiftByte(color, 0)
      r == ShiftByte(color, 8)
      g == ShiftByte(color, 16)
  IN  <<r, g, b>>

\* one pixel of the unrolled body: *(p++) = r; *(p++) = g; *(p++) = b
FillPixel(d, buf, p, rgb) ==
  Poke(Poke(Poke(d, buf, p, rgb[1]), buf, p + 1, rgb[2]), buf, p + 2, rgb[3])

RECURSIVE FillLoop(_, _, _, _, _)
FillLoop(d, buf, p, cnt, rgb) ==
  IF cnt # 0
    THEN Then(FillPixel(FillPixel(FillPixel(FillPixel(d, buf, p, rgb),
                                            buf, p + 3, rgb),
                                  buf, p + 6, rgb),
                        buf, p + 9, rgb),
              LAMBDA dd : FillLoop(dd, buf, p + 12, ToByte(cnt - 1), rgb))
    ELSE d

Fill(d, buf, color) ==
  FillLoop(d, buf, 0, ToByte((ARGB_MAX_X * ARGB_MAX_Y) \div 4), FillBytes(color))

\* FadeChannel rounding to nearest instead of truncating
FadeChannel_rounded(alpha, v) == ToByte(ToUInt(alpha * v + 128) \div 256)

\* one channel of Fade
FadeChannel(alpha, v) == ToByte(ToUInt(alpha * v) \div 256)

RECURSIVE FadeBytes(_, _, _, _, _)
\* n consecutive bytes from offset p
FadeBytes(d, buf, p, n, alpha) ==
  IF n # 0
    THEN Then(Poke(d, buf, p, FadeChannel(alpha, Peek(d, buf, p))),
              LAMBDA dd : FadeBytes(dd, buf, p + 1, n - 1, alpha))
    ELSE d

RECURSIVE FadeLoop(_, _, _, _, _)
FadeLoop(d, buf, p, cnt, alpha) ==
  IF cnt # 0
    THEN Then(FadeBytes(d, buf, p, 12, alpha),
              LAMBDA dd : FadeLoop(dd, buf, p + 12, ToByte(cnt - 1), alpha))
    ELSE d

Fade(d, buf, alpha) ==
  FadeLoop(d, buf, 0, ToByte((ARGB_MAX_X * ARGB_MAX_Y) \div 4), alpha)

\* *pto = *(pto - 3*steps); pto--;   three times (B, G, R)
ScrollCopyPixel(d, buf, pto, steps) ==
  LET dB == Poke(d, buf, pto, Peek(d, buf, pto - 3 * steps))
      dG == Poke(dB, buf, pto - 1, Peek(dB, buf, pto - 1 - 3 * steps))
  IN  Poke(dG, buf, pto - 2, Peek(dG, buf, pto - 2 - 3 * steps))

RECURSIVE ScrollCopy(_, _, _, _, _)
\* while (cnt--) copy one pixel; yields <<memory, pto>>
ScrollCopy(d, buf, pto, cnt, steps) ==
  IF cnt # 0
    THEN Then(ScrollCopyPixel(d, buf, pto, steps),
              LAMBDA dd : ScrollCopy(dd, buf, pto - 3, ToByte(cnt - 1), steps))
    ELSE <<d, pto>>

RECURSIVE ScrollZero(_, _, _, _)
\* while (cnt--) zero one pixel; yields <<memory, pto>>
ScrollZero(d, buf, pto, cnt) ==
  IF cnt # 0
    THEN Then(Poke(Poke(Poke(d, buf, pto, 0), buf, pto - 1, 0), buf, pto - 2, 0),
              LAMBDA dd : ScrollZero(dd, buf, pto - 3, ToByte(cnt - 1)))
    ELSE <<d, pto>>

\* the pointer taken one row on only
ScrollRowAdvance_oneRow(pto) == pto + ARGB_MAX_X * 3

\* pto += ARGB_MAX_X * 2 * 3: from one row's end to the next row's start
ScrollRowAdvance(pto) == pto + ARGB_MAX_X * 2 * 3

RECURSIVE ScrollLines(_, _, _, _, _)
ScrollLines(d, buf, pto, ln, steps) ==
  IF ln # 0
    THEN LET c == ScrollCopy(d, buf, pto, ToByte(ARGB_MAX_X - steps), steps)
             z == ScrollZero(c[1], buf, c[2], steps)
         IN  Then(z[1], LAMBDA dd : ScrollLines(dd, buf, ScrollRowAdvance(z[2]),
                                                ToByte(ln - 1), steps))
    ELSE d

ScrollLeft(d, buf, steps) ==
  ScrollLines(d, buf, 3 * (ARGB_MAX_X - 1) + 2, ARGB_MAX_Y, steps)

\* ------------------------------------------------------------ lines, rectangles

RECURSIVE ClipNegative(_, _)
\* while (x < 0 && w) { x++; w--; }   yields <<x, w>>
ClipNegative(x, w) ==
  IF x < 0 /\ w # 0 THEN ClipNegative(x + 1, ToByte(w - 1)) ELSE <<x, w>>

RECURSIVE HLineLoop(_, _, _, _, _, _)
\* while (w-- && (x < ARGB_MAX_X)) SetPixel(x++, y, color);
HLineLoop(d, buf, x, y, w, color) ==
  IF w # 0 /\ x < ARGB_MAX_X
    THEN Then(SetPixel(d, buf, x, y, color),
              LAMBDA dd : HLineLoop(dd, buf, x + 1, y, ToByte(w - 1), color))
    ELSE d

HLine(d, buf, x, y, w, color) ==
  IF y >= 0 /\ y < ARGB_MAX_Y
    THEN LET c == ClipNegative(x, w)
         IN  HLineLoop(d, buf, c[1], y, c[2], color)
    ELSE d

RECURSIVE VLineLoop(_, _, _, _, _, _)
\* while (w-- && (y < ARGB_MAX_Y)) SetPixel(x, y++, color);
VLineLoop(d, buf, x, y, w, color) ==
  IF w # 0 /\ y < ARGB_MAX_Y
    THEN Then(SetPixel(d, buf, x, y, color),
              LAMBDA dd : VLineLoop(dd, buf, x, y + 1, ToByte(w - 1), color))
    ELSE d

VLine(d, buf, x, y, w, color) ==
  IF x >= 0 /\ x < ARGB_MAX_X
    THEN LET c == ClipNegative(y, w)
         IN  VLineLoop(d, buf, x, c[1], c[2], color)
    ELSE d

\* DrawRect with the two sides as long as the rectangle is high
DrawRect_corners(d, buf, x1, y1, x2, y2, color) ==
  LET dT == HLine(d, buf, x1, y1, ToByte(x2 - x1 + 1), color)
      dB == HLine(dT, buf, x1, y2, ToByte(x2 - x1 + 1), color)
  IN  IF y1 < y2
        THEN VLine(VLine(dB, buf, x1, y1, ToByte(y2 - y1 + 1), color),
                   buf, x2, y1, ToByte(y2 - y1 + 1), color)
        ELSE dB

DrawRect(d, buf, x1, y1, x2, y2, color) ==
  LET dT == HLine(d, buf, x1, y1, ToByte(x2 - x1 + 1), color)
      dB == HLine(dT, buf, x1, y2, ToByte(x2 - x1 + 1), color)
  IN  IF y1 < y2
        THEN VLine(VLine(dB, buf, x1, y1 + 1, ToByte(y2 - y1 - 1), color),
                   buf, x2, y1 + 1, ToByte(y2 - y1 - 1), color)
        ELSE dB

RECURSIVE FillRectQuads(_, _, _, _, _, _)
\* while (tw >= 4 && tx < (ARGB_MAX_X-3)): four pixels; yields <<memory, tx, tw>>
FillRectQuads(d, buf, tx, y, tw, color) ==
  IF tw >= 4 /\ tx < (ARGB_MAX_X - 3)
    THEN Then(
           SetPixel(SetPixel(SetPixel(SetPixel(d, buf, tx, y, color),
                                      buf, tx + 1, y, color),
                             buf, tx + 2, y, color),
                    buf, tx + 3, y, color),
           LAMBDA dd : FillRectQuads(dd, buf, tx + 4, y, ToByte(tw - 4), color))
    ELSE <<d, tx, tw>>

RECURSIVE FillRectRows(_, _, _, _, _, _, _)
\* while (h-- && (y < ARGB_MAX_Y)) { one row; y++; }
FillRectRows(d, buf, x, y, w, h, color) ==
  IF h # 0 /\ y < ARGB_MAX_Y
    THEN LET q == FillRectQuads(d, buf, x, y, w, color)
         IN  Then(HLineLoop(q[1], buf, q[2], y, q[3], color),
                  LAMBDA dd : FillRectRows(dd, buf, x, y + 1, w, ToByte(h - 1),
                                           color))
    ELSE d

FillRect(d, buf, x, y, w, h, color) ==
  LET cx == ClipNegative(x, w)
      cy == ClipNegative(y, h)
  IN  FillRectRows(d, buf, cx[1], cy[1], cx[2], cy[2], color)


\* ------------------------------------------------------------ circles

\* One pass of the midpoint loop over the char variables x, y, err (after the
\* drawing calls); yields the new <<x, y, err>>.
CircleStep(x, y, err) ==
  LET e2a  == err
      incY == e2a <= y
      y1   == IF incY THEN ToChar(y + 1) ELSE y
      err1 == IF incY THEN ToChar(err + y1 * 2 + 1) ELSE err
      e2   == IF incY /\ (-x) = y1 /\ e2a <= x THEN 0 ELSE e2a
      incX == e2 > x
      x1   == IF incX THEN ToChar(x + 1) ELSE x
      err2 == IF incX THEN ToChar(err1 + x1 * 2 + 1) ELSE err1
  IN  <<x1, y1, err2>>

\* the four SetPixel calls of one pass of DrawCircle
CirclePlot(d, buf, poX, poY, x, y, color) ==
  SetPixel(SetPixel(SetPixel(SetPixel(d, buf, poX - x, poY + y, color),
                             buf, poX + x, poY + y, color),
                    buf, poX + x, poY - y, color),
           buf, poX - x, poY - y, color)

RECURSIVE DrawCircleLoop(_, _, _, _, _, _, _, _)
\* do { ... } while (x <= 0);
DrawCircleLoop(d, buf, poX, poY, x, y, err, color) ==
  LET n == CircleStep(x, y, err)
  IN  Then(CirclePlot(d, buf, poX, poY, x, y, color),
           LAMBDA dd : IF n[1] <= 0
                         THEN DrawCircleLoop(dd, buf, poX, poY, n[1], n[2], n[3],
                                             color)
                         ELSE dd)

DrawCircle(d, buf, poX, poY, r, color) ==
  DrawCircleLoop(d, buf, poX, poY, ToChar(-r), 0, ToChar(2 - 2 * r), color)

\* the two VLine calls of one pass of FillCircle
FillCircleSpans(d, buf, poX, poY, x, y, color) ==
  VLine(VLine(d, buf, poX - x, poY - y, ToByte(2 * y), color),
        buf, poX + x, poY - y, ToByte(2 * y), color)

RECURSIVE FillCircleLoop(_, _, _, _, _, _, _, _)
FillCircleLoop(d, buf, poX, poY, x, y, err, color) ==
  LET n == CircleStep(x, y, err)
  IN  Then(FillCircleSpans(d, buf, poX, poY, x, y, color),
           LAMBDA dd : IF n[1] <= 0
                         THEN FillCircleLoop(dd, buf, poX, poY, n[1], n[2], n[3],
                                             color)
                         ELSE dd)

FillCircle(d, buf, poX, poY, r, color) ==
  FillCircleLoop(d, buf, poX, poY, ToChar(-r), 0, ToChar(2 - 2 * r), color)

\* ------------------------------------------------------------ DrawLine

Abs(v) == IF v < 0 THEN -v ELSE v

\* if (x0 >= 0 && x0 < ARGB_MAX_X && y0 >= 0 && y0 < ARGB_MAX_Y)
OnBuffer(x, y) == x >= 0 /\ x < ARGB_MAX_X /\ y >= 0 /\ y < ARGB_MAX_Y

RECURSIVE DrawLineLoop(_, _, _, _, _, _, _, _, _, _, _, _)
\* for (;;) { ... }   dx, sx, dy, sy are fixed; x0, y0, err advance
DrawLineLoop(d, buf, x0, y0, x1, y1, dx, sx, dy, sy, err, color) ==
  LET e2    == ToChar(2 * err)
      stepX == e2 >= dy
      stepY == e2 <= dx
      errX  == IF stepX THEN ToChar(err + dy) ELSE err
      nx    == IF stepX THEN x0 + sx ELSE x0
  IN  Then(IF OnBuffer(x0, y0) THEN SetPixel(d, buf, x0, y0, color) ELSE d,
           LAMBDA dd :
             IF stepX /\ x0 = x1 THEN dd
             ELSE IF stepY /\ y0 = y1 THEN dd
             ELSE DrawLineLoop(dd, buf, nx, IF stepY THEN y0 + sy ELSE y0, x1, y1,
                               dx, sx, dy, sy,
                               IF stepY THEN ToChar(errX + dx) ELSE errX, color))

DrawLine(d, buf, x0, y0, x1, y1, color) ==
  LET dx == ToChar(Abs(x1 - x0))
      sx == IF x0 < x1 THEN 1 ELSE -1
      dy == ToChar(-Abs(y1 - y0))
      sy == IF y0 < y1 THEN 1 ELSE -1
  IN  DrawLineLoop(d, buf, x0, y0, x1, y1, dx, sx, dy, sy, ToChar(dx + dy), color)

\* ------------------------------------------------------------ digits

\* vertical strips, lowest bit is the top row: 0..9, colon, H, M
numberFont ==
  << <<31, 17, 31>>, <<0, 0, 31>>, <<29, 21, 23>>, <<21, 21, 31>>,
     <<7, 4, 31>>, <<23, 21, 29>>, <<31, 21, 29>>, <<1, 1, 31>>,
     <<31, 21, 31>>, <<23, 21, 31>>, <<10, 0, 0>>, <<31, 4, 31>>,
     <<31, 6, 31>> >>

RECURSIVE DrawDigitRows(_, _, _, _, _, _, _)
\* for (byte y = 0; y < 8; y++)
DrawDigitRows(d, buf, plot_x, py, cdata, y, color) ==
  IF y < 8
    THEN LET plot_y == py + y
         IN  Then(IF plot_y >= 0 /\ plot_y < ARGB_MAX_Y /\ Bit(cdata, y) = 1
                    THEN SetPixel(d, buf, plot_x, plot_y, color)
                    ELSE d,
                  LAMBDA dd : DrawDigitRows(dd, buf, plot_x, py, cdata, y + 1,
                                            color))
    ELSE d

RECURSIVE DrawDigitCols(_, _, _, _, _, _, _)
\* for (char i = 0; i < 3; i++)
DrawDigitCols(d, buf, digit, px, py, i, color) ==
  IF i < 3
    THEN LET plot_x == px + i
         IN  Then(IF plot_x >= 0 /\ plot_x < ARGB_MAX_X
                    THEN DrawDigitRows(d, buf, plot_x, py,
                                       numberFont[digit + 1][i + 1], 0, color)
                    ELSE d,
                  LAMBDA dd : DrawDigitCols(dd, buf, digit, px, py, i + 1, color))
    ELSE d

DrawDigit(d, buf, digit, px, py, color) ==
  DrawDigitCols(d, buf, digit, px, py, 0, color)

\* byte shift = blend / 32, after blend was forced to 0 for equal digits
BlendShift(digit1, digit2, blend) ==
  (IF digit1 = digit2 THEN 0 ELSE blend) \div 32

\* the second digit as many rows above
BlendRow2_above(py, shift) == py - (shift + 7)

\* the row the second (bottom) digit is drawn at
BlendRow2(py, shift) == py - shift + 7

BlendDigits(d, buf, digit1, digit2, blend, px, py, color) ==
  LET bl    == IF digit1 = digit2 THEN 0 ELSE blend
      shift == BlendShift(digit1, digit2, blend)
      d1    == IF digit1 # 255
                 THEN DrawDigit(d, buf, digit1, px, py - shift, color)
                 ELSE d
  IN  IF bl # 0 /\ digit2 # 255
        THEN DrawDigit(d1, buf, digit2, px, BlendRow2(py, shift), color)
        ELSE d1


\* ------------------------------------------------------------ DrawChar

\* The glyph table simpleFont[][8] is defined in font.c, which is not among
\* the sources; all that is known is its shape: per character eight column
\* bytes, each bit a row.  FontColumn stands for its data: table fnt gives
\* character index idx one of six column layouts (no column, column 0 only,
\* columns 1..4, columns 0, 2 and 5, all eight, columns 3..6).
FontColumn(fnt, idx, i) ==
  LET k   == (idx + fnt) % 6
      set == CASE k = 0 -> FALSE
               [] k = 1 -> i = 0
               [] k = 2 -> i >= 1 /\ i <= 4
               [] k = 3 -> i \in {0, 2, 5}
               [] k = 4 -> TRUE
               [] OTHER -> i >= 3 /\ i <= 6
  IN  IF set THEN 1 + ((idx * 37 + i * 29) % 255) ELSE 0

\* pgm_read_byte(&simpleFont[idx][i])
simpleFont(idx, i) == FontColumn(font, idx, i)

\* if ((ascii < 0x20) || (ascii > 0x7e)) ascii = '-';
GlyphCode(ascii) == IF ascii < 32 \/ ascii > 126 THEN 45 ELSE ascii

RECURSIVE DrawCharRows(_, _, _, _, _, _, _)
\* for (byte f = 0; f < 8; f++) if (col & (1 << f)) SetPixel(px+i, py+f, color);
DrawCharRows(d, buf, x, py, col, f, color) ==
  IF f < 8
    THEN Then(IF Bit(col, f) = 1 THEN SetPixel(d, buf, x, py + f, color) ELSE d,
              LAMBDA dd : DrawCharRows(dd, buf, x, py, col, f + 1, color))
    ELSE d

\* the width taken from every non-empty column
CharWidth_every(width, i) == i

\* if (!width) width = i;
CharWidth(width, i) == IF width = 0 THEN i ELSE width

RECURSIVE DrawCharCols(_, _, _, _, _, _, _, _)
\* for (char i = 7; i >= 0; i--)   yields <<memory, width>>
DrawCharCols(d, buf, code, px, py, i, width, color) ==
  IF i >= 0
    THEN LET col    == simpleFont(code - 32, i)
             plot_x == px + i
         IN  IF col # 0
               THEN Then(
                      IF plot_x >= 0 /\ plot_x < ARGB_MAX_X
                        THEN DrawCharRows(d, buf, px + i, py, col, 0, color)
                        ELSE d,
                      LAMBDA dd : DrawCharCols(dd, buf, code, px, py, i - 1,
                                               CharWidth(width, i), color))
               ELSE DrawCharCols(d, buf, code, px, py, i - 1, width, color)
    ELSE <<d, width>>

DrawChar(d, buf, ascii, px, py, color) ==
  DrawCharCols(d, buf, GlyphCode(ascii), px, py, 7, 0, color)


\* ------------------------------------------------------------ inputs

XCoords == (-MaxOff) .. (ARGB_MAX_X - 1 + MaxOff)
YCoords == (-MaxOff) .. (ARGB_MAX_Y - 1 + MaxOff)
XOnBuffer == 0 .. (ARGB_MAX_X - 1)
YOnBuffer == 0 .. (ARGB_MAX_Y - 1)
\* a glyph is eight columns wide: start it up to seven columns further left
XText == (-(7 + MaxOff)) .. (ARGB_MAX_X - 1 + MaxOff)
Lens == (0 .. MaxLen) \cup {255}
\* a line may end far off the buffer
LineEndX == XCoords \cup {100}
LineEndY == {-MaxOff, 0, 3, ARGB_MAX_Y - 1 + MaxOff}
RectLens == {0, 1, 4, 5, MaxLen, 255}
Radii == (0 .. MaxRadius) \cup {129, 255}
Digits == {3, 4, 10}
\* a digit is three columns wide
DigitX == {-MaxOff, 0, ARGB_MAX_X - 2}
Blends == {0, 1, 32, 128, 255}
AsciiCodes == {0, 31, 32, 33, 34, 35, 36, 37, 45, 126, 127, 255}
Alphas == {0, 1, 2, 3, 16, 64, 100, 127, 128, 129, 192, 200, 252, 253, 254, 255}
PixelColors ==
  {MakeARGB(a, c[1], c[2], c[3]) :
     a \in Alphas,
     c \in {<<255, 0, 0>>, <<0, 128, 255>>, <<255, 255, 255>>, <<1, 2, 3>>,
            <<0, 0, 0>>}}
\* a half-transparent colour: a pixel drawn twice differs from one drawn once
ShapeColors == {MakeARGB(128, 255, 0, 64)}
FillColors ==
  {MakeARGB(255, 255, 0, 0), MakeARGB(0, 0, 128, 255), MakeARGB(7, 1, 2, 3),
   MakeARGB(255, 0, 0, 0), MakeARGB(128, 255, 255, 255)}

\* Byte i of array buf in background pattern p: pattern 0 is the cleared
\* buffer, pattern 1 is all 255, the others hold a different value in
\* (almost) every byte.  Every pattern can be drawn with opaque SetPixel
\* calls.
Background(p, buf, i) ==
  IF p = 0 THEN 0
  ELSE IF p = 1 THEN 255
  ELSE ((2 * p + 33) * i + 11 * p + 101 * (buf - 1)) % 256

BackgroundBuffer(p, buf) == [i \in 0 .. (FBSIZE - 1) |-> Background(p, buf, i)]

\* ------------------------------------------------------------ initial states

NoCall == [op |-> "none", args |-> <<>>, color |-> <<0, 0, 0, 0>>]

\* the display state: init() selects the main buffer, SelectAltBuffer() the
\* other; the buffers hold what earlier drawing left in them
InitDisplay ==
  /\ bg \in 0 .. MaxBg
  /\ framebuffer_1 = BackgroundBuffer(bg, 1)
  /\ framebuffer_2 = BackgroundBuffer(bg, 2)
  /\ framebuffer \in {1, 2}
  /\ layout = "unknown"
  /\ stray = FALSE
  /\ last = NoCall
  /\ calls = <<>>
  /\ ret = 0
  /\ ncalls = 0
  /\ pcCopy = 0

\* the interrupt's state as the initializers and init() leave it
InitScan ==
  /\ line = 0
  /\ outbuf = 0
  /\ sent = <<>>
  /\ rowsel = 0
  /\ led = 1
  /\ ARGB_user_frame = 0
  /\ ARGB_clock_ms = 0
  /\ ARGB_clock_tod = 0
  /\ ARGB_adcdata = [i \in 0 .. (ARGB_MAX_Y - 1) |-> 0]
  /\ shown = [r \in 0 .. (ARGB_MAX_Y - 1) |-> <<>>]
  /\ iflag = TRUE
  /\ pcSet = "idle"
  /\ new_tod = 0
  /\ secs = 0

InitDraw == InitDisplay /\ InitScan /\ font = 0 /\ ain = 0

\* shapes are drawn into cleared buffers
InitShape == InitDraw /\ bg = 0

InitText == InitDisplay /\ bg = 0 /\ InitScan /\ font \in 0 .. MaxFont /\ ain = 0

\* ------------------------------------------------------------ foreground calls

\* the memory a call starts from, under linker layout lay
Mem(lay) ==
  [fb1 |-> framebuffer_1, fb2 |-> framebuffer_2, stray |-> stray,
   calls |-> <<>>, oob |-> FALSE, layout |-> lay]

\* the layouts the build can have
Lays == IF layout = "unknown" THEN Layouts ELSE {layout}

\* the call op(args, color) ran, left memory d and returned r
Done(d, op, args, color, r) ==
  /\ framebuffer_1' = d.fb1
  /\ framebuffer_2' = d.fb2
  /\ stray' = d.stray
  /\ calls' = d.calls
  /\ layout' = IF d.oob THEN d.layout ELSE layout
  /\ last' = [op |-> op, args |-> args, color |-> color]
  /\ ret' = r
  /\ ncalls' = ncalls + 1
  /\ UNCHANGED <<framebuffer, bg, font, pcCopy, scanVars, timeVars>>

\* Run the call Op on the current memory.  A call that stays inside the
\* array it draws into has one outcome; one that leaves it has one outcome
\* per layout (whether it leaves does not depend on the layout).
Run(Op(_), op, args, color) ==
  LET d0 == Op(Mem("apart"))
  IN  IF d0.oob
        THEN \E lay \in Lays : Done(Op(Mem(lay)), op, args, color, 0)
        ELSE Done(d0, op, args, color, 0)

\* SetPixel is called within its contract: in-range coordinates
CallSetPixel ==
  /\ last.op = "none"
  /\ \E x \in XOnBuffer, y \in YOnBuffer, color \in PixelColors :
       Run(LAMBDA m : SetPixel(m, framebuffer, x, y, color),
           "SetPixel", <<x, y>>, color)

\* ---- whole-buffer calls

CallFill ==
  /\ last.op = "none"
  /\ \E color \in FillColors :
       Run(LAMBDA m : Fill(m, framebuffer, color), "Fill", <<>>, color)

\* ScrollLeft is called within its contract: 0 <= steps < ARGB_MAX_X
CallScrollLeft ==
  /\ last.op = "none"
  /\ \E steps \in 0 .. (ARGB_MAX_X - 1) :
       Run(LAMBDA m : ScrollLeft(m, framebuffer, steps),
           "ScrollLeft", <<steps>>, NoCall.color)

CallFade ==
  /\ last.op = "none"
  /\ \E alpha \in {0, 1, 128, 254, 255} :
       Run(LAMBDA m : Fade(m, framebuffer, alpha), "Fade", <<alpha>>, NoCall.color)

\* the Fade call just made is made again with the same factor
CallFadeAgain ==
  /\ last.op = "Fade"
  /\ ncalls < MaxFades
  /\ Run(LAMBDA m : Fade(m, framebuffer, last.args[1]),
         "Fade", last.args, NoCall.color)

CallClear ==
  /\ last.op = "none"
  /\ Run(LAMBDA m : Clear(m, framebuffer), "Clear", <<>>, NoCall.color)

CallCopyAltToMain ==
  /\ last.op = "none"
  /\ Run(LAMBDA m : CopyAltToMain(m), "CopyAltToMain", <<>>, NoCall.color)

CallCopyMainToAlt ==
  /\ last.op = "none"
  /\ Run(LAMBDA m : CopyMainToAlt(m), "CopyMainToAlt", <<>>, NoCall.color)

\* void SelectMainBuffer() {framebuffer = framebuffer_1;}
SelectMainBuffer ==
  /\ last.op = "none"
  /\ framebuffer' = 1
  /\ last' = [NoCall EXCEPT !.op = "SelectMainBuffer"]
  /\ ncalls' = ncalls + 1
  /\ UNCHANGED <<framebuffer_1, framebuffer_2, layout, stray, bg, calls, ret,
                 font, pcCopy, scanVars, timeVars>>

\* void SelectAltBuffer() {framebuffer = framebuffer_2;}
SelectAltBuffer ==
  /\ last.op = "none"
  /\ framebuffer' = 2
  /\ last' = [NoCall EXCEPT !.op = "SelectAltBuffer"]
  /\ ncalls' = ncalls + 1
  /\ UNCHANGED <<framebuffer_1, framebuffer_2, layout, stray, bg, calls, ret,
                 font, pcCopy, scanVars, timeVars>>

\* ---- shape calls

CallHLine ==
  /\ last.op = "none"
  /\ \E x \in XCoords, y \in YCoords, w \in Lens, color \in ShapeColors :
       Run(LAMBDA m : HLine(m, framebuffer, x, y, w, color),
           "HLine", <<x, y, w>>, color)

CallVLine ==
  /\ last.op = "none"
  /\ \E x \in XCoords, y \in YCoords, w \in Lens, color \in ShapeColors :
       Run(LAMBDA m : VLine(m, framebuffer, x, y, w, color),
           "VLine", <<x, y, w>>, color)

\* rectangles are given by two corners, the second not before the first
CallDrawRect ==
  /\ last.op = "none"
  /\ \E x1 \in XCoords, y1 \in YCoords, x2 \in XCoords, y2 \in YCoords,
        color \in ShapeColors :
       /\ x1 <= x2
       /\ y1 <= y2
       /\ Run(LAMBDA m : DrawRect(m, framebuffer, x1, y1, x2, y2, color),
              "DrawRect", <<x1, y1, x2, y2>>, color)

CallFillRect ==
  /\ last.op = "none"
  /\ \E x \in XCoords, y \in YCoords, w \in RectLens, h \in RectLens,
        color \in ShapeColors :
       Run(LAMBDA m : FillRect(m, framebuffer, x, y, w, h, color),
           "FillRect", <<x, y, w, h>>, color)

CallDrawCircle ==
  /\ last.op = "none"
  /\ \E poX \in XCoords, poY \in YCoords, r \in Radii, color \in ShapeColors :
       Run(LAMBDA m : DrawCircle(m, framebuffer, poX, poY, r, color),
           "DrawCircle", <<poX, poY, r>>, color)

CallFillCircle ==
  /\ last.op = "none"
  /\ \E poX \in XCoords, poY \in YCoords, r \in Radii, color \in ShapeColors :
       Run(LAMBDA m : FillCircle(m, framebuffer, poX, poY, r, color),
           "FillCircle", <<poX, poY, r>>, color)

CallDrawLine ==
  /\ last.op = "none"
  /\ \E x0 \in XCoords, y0 \in YCoords, x1 \in LineEndX, y1 \in LineEndY,
        color \in ShapeColors :
       Run(LAMBDA m : DrawLine(m, framebuffer, x0, y0, x1, y1, color),
           "DrawLine", <<x0, y0, x1, y1>>, color)

CallDrawDigit ==
  /\ last.op = "none"
  /\ \E digit \in Digits, px \in XCoords, py \in YCoords, color \in ShapeColors :
       Run(LAMBDA m : DrawDigit(m, framebuffer, digit, px, py, color),
           "DrawDigit", <<digit, px, py>>, color)

CallBlendDigits ==
  /\ last.op = "none"
  /\ \E digit1 \in Digits \cup {255}, digit2 \in Digits \cup {255},
        blend \in Blends, px \in DigitX, py \in YCoords, color \in ShapeColors :
       Run(LAMBDA m : BlendDigits(m, framebuffer, digit1, digit2, blend, px, py,
                                  color),
           "BlendDigits", <<digit1, digit2, blend, px, py>>, color)

\* ---- text

CallDrawChar ==
  /\ last.op = "none"
  /\ \E ascii \in AsciiCodes, px \in XText, py \in YCoords :
       LET color == MakeARGB(255, 255, 255, 255)
           r0    == DrawChar(Mem("apart"), framebuffer, ascii, px, py, color)
       IN  IF r0[1].oob
             THEN \E lay \in Lays :
                    LET r == DrawChar(Mem(lay), framebuffer, ascii, px, py, color)
                    IN  Done(r[1], "DrawChar", <<ascii, px, py>>, color, r[2])
             ELSE Done(r0[1], "DrawChar", <<ascii, px, py>>, color, r0[2])

\* ---- calls made one after the other while the display is scanned

\* a pixel drawn in the first or the last corner of the selected buffer
CallCornerPixel ==
  /\ last.op = "none"
  /\ \E p \in {<<0, 0>>, <<ARGB_MAX_X - 1, ARGB_MAX_Y - 1>>}, color \in ShapeColors :
       Run(LAMBDA m : SetPixel(m, framebuffer, p[1], p[2], color),
           "SetPixel", p, color)

\* the call has returned and the foreground goes on to its next call
Return ==
  /\ last.op # "none"
  /\ ncalls < MaxCalls
  /\ last' = NoCall
  /\ calls' = <<>>
  /\ ret' = 0
  /\ UNCHANGED <<framebuffer_1, framebuffer_2, framebuffer, layout, stray, bg,
                 font, ncalls, pcCopy, scanVars, timeVars>>

\* ---- a call the interrupt can cut into

\* the bytes of one display row
RowLen == 3 * ARGB_MAX_X

\* the copy made with the interrupts disabled from its first byte to its last
CopyAltToMain_locked ==
  /\ pcCopy < FBSIZE
  /\ (last.op = "none") = (pcCopy = 0)
  /\ framebuffer_1' = [i \in 0 .. (FBSIZE - 1) |->
                         IF i >= pcCopy /\ i < pcCopy + RowLen
                           THEN framebuffer_2[i] ELSE framebuffer_1[i]]
  /\ pcCopy' = pcCopy + RowLen
  /\ iflag' = (pcCopy + RowLen >= FBSIZE)
  /\ last' = [NoCall EXCEPT !.op = "CopyAltToMain"]
  /\ ncalls' = IF pcCopy = 0 THEN ncalls + 1 ELSE ncalls
  /\ UNCHANGED <<framebuffer_2, framebuffer, layout, stray, bg, calls, ret,
                 font, scanVars, pcSet, new_tod, secs>>

\* CopyAltToMain() as the processor runs it: memcpy stores byte after byte
\* with the interrupts enabled, so the interrupt can be taken between any two
\* stores.  One step copies the bytes of one row; the interrupt is let in
\* between rows.
CopyAltToMain_row ==
  /\ pcCopy < FBSIZE
  /\ (last.op = "none") = (pcCopy = 0)
  /\ framebuffer_1' = [i \in 0 .. (FBSIZE - 1) |->
                         IF i >= pcCopy /\ i < pcCopy + RowLen
                           THEN framebuffer_2[i] ELSE framebuffer_1[i]]
  /\ pcCopy' = pcCopy + RowLen
  /\ last' = [NoCall EXCEPT !.op = "CopyAltToMain"]
  /\ ncalls' = IF pcCopy = 0 THEN ncalls + 1 ELSE ncalls
  /\ UNCHANGED <<framebuffer_2, framebuffer, layout, stray, bg, calls, ret,
                 font, scanVars, timeVars>>

\* ------------------------------------------------------------ the periodic task

\* the frame time of the 100 Hz build
FrameMs_100Hz == 1000 \div 100

\* 1000 / ARGB_FRAMERATE: the milliseconds one frame takes
FrameMs == 1000 \div ARGB_FRAMERATE

\* the seconds counter taken to the next second without the roll over
RollOver_never(tod) == tod + 1

\* ARGB_clock_tod++; if (ARGB_clock_tod >= 86400) ARGB_clock_tod = 0;
RollOver(tod) == IF tod + 1 >= DAY_SECONDS THEN 0 ELSE tod + 1

\* the row taken from the alt buffer
RowBytes_alt(from) ==
  [k \in 1 .. (24 * ARGB_PANELS) |-> framebuffer_2[from + k - 1]]

\* the row's bytes in the order they are clocked out: 24 per panel
RowBytes(from) ==
  [k \in 1 .. (24 * ARGB_PANELS) |-> framebuffer_1[from + k - 1]]

\* ISR(TIMER1_COMPA_vect): runs when interrupts are enabled, to its end
ISR ==
  /\ iflag
  /\ secs <= MaxSeconds
  /\ sent' = RowBytes(outbuf)
  /\ rowsel' = line
  /\ ARGB_adcdata' = [ARGB_adcdata EXCEPT ![line] = ain]
  /\ shown' = [shown EXCEPT ![line] = RowBytes(outbuf)]
  /\ IF ToByte(line + 1) >= ARGB_MAX_Y
       THEN LET ms == ToUInt(ARGB_clock_ms + FrameMs)
            IN  /\ line' = 0
                /\ ARGB_user_frame' = 1
                /\ outbuf' = 0
                /\ IF ms >= 1000
                     THEN /\ ARGB_clock_ms' = 0
                          /\ ARGB_clock_tod' = RollOver(ARGB_clock_tod)
                          /\ secs' = secs + 1
                          /\ led' = 1
                     ELSE /\ ARGB_clock_ms' = ms
                          /\ led' = IF ms >= 20 THEN 0 ELSE led
                          /\ UNCHANGED <<ARGB_clock_tod, secs>>
       ELSE /\ line' = ToByte(line + 1)
            /\ outbuf' = outbuf + 24 * ARGB_PANELS
            /\ UNCHANGED <<ARGB_user_frame, ARGB_clock_ms, ARGB_clock_tod, secs,
                           led>>
  /\ UNCHANGED <<drawVars, ain, iflag, pcSet, new_tod>>

\* the times of day the clock is set to
TodValues == {0, DAY_SECONDS - 1}

\* ARGB_SetTime entered without disabling the interrupts
SetTime_cli_open ==
  /\ pcSet = "idle"
  /\ \E t \in TodValues : new_tod' = t
  /\ pcSet' = "ms"
  /\ UNCHANGED <<drawVars, scanVars, secs, iflag>>

\* ARGB_SetTime(new_tod), statement by statement; pcSet names the next one
\* cli();
SetTime_cli ==
  /\ pcSet = "idle"
  /\ \E t \in TodValues : new_tod' = t
  /\ iflag' = FALSE
  /\ pcSet' = "ms"
  /\ UNCHANGED <<drawVars, scanVars, secs>>

\* ARGB_clock_ms = 0;
SetTime_ms ==
  /\ pcSet = "ms"
  /\ ARGB_clock_ms' = 0
  /\ pcSet' = "tod"
  /\ UNCHANGED <<drawVars, line, outbuf, sent, rowsel, led, ain,
                 ARGB_user_frame, ARGB_clock_tod, ARGB_adcdata, shown, iflag,
                 new_tod, secs>>

\* ARGB_clock_tod = new_tod;
SetTime_tod ==
  /\ pcSet = "tod"
  /\ ARGB_clock_tod' = new_tod
  /\ secs' = 0
  /\ pcSet' = "sei"
  /\ UNCHANGED <<drawVars, line, outbuf, sent, rowsel, led, ain,
                 ARGB_user_frame, ARGB_clock_ms, ARGB_adcdata, shown, iflag,
                 new_tod>>

\* sei();
SetTime_sei ==
  /\ pcSet = "sei"
  /\ iflag' = TRUE
  /\ pcSet' = "idle"
  /\ UNCHANGED <<drawVars, scanVars, new_tod, secs>>

\* ------------------------------------------------------------ specifications

NextPixel == CallSetPixel

SpecPixel == InitDraw /\ [][NextPixel]_vars

NextBuffer ==
  \/ CallFill
  \/ CallScrollLeft
  \/ CallFade
  \/ CallClear
  \/ CallCopyAltToMain
  \/ CallCopyMainToAlt
  \/ SelectMainBuffer
  \/ SelectAltBuffer

SpecBuffer == InitDraw /\ [][NextBuffer]_vars

NextShape ==
  \/ CallBlendDigits
  \/ CallDrawDigit
  \/ CallDrawCircle
  \/ CallFillCircle
  \/ CallDrawLine
  \/ CallHLine
  \/ CallVLine
  \/ CallDrawRect
  \/ CallFillRect

SpecShape == InitShape /\ [][NextShape]_vars

NextText == CallDrawChar

SpecText == InitText /\ [][NextText]_vars

\* Fade, once and over and over
NextFade ==
  \/ CallFade
  \/ CallFadeAgain

SpecFade == InitDraw /\ [][NextFade]_vars

\* the clock: a cleared display being scanned, a steady analog level
InitClock == InitDraw /\ bg = 0 /\ framebuffer = 1

NextClock ==
  \/ ISR
  \/ SetTime_cli
  \/ SetTime_ms
  \/ SetTime_tod
  \/ SetTime_sei

SpecClock == InitClock /\ [][NextClock]_vars

\* a display that has been scanned for a while (MaxFrames frames before the
\* end of a second) when the foreground copies a new picture into the main
\* buffer; every byte of the new picture differs from the old one
InitTear ==
  /\ InitDisplay
  /\ bg = MaxBg
  /\ font = 0
  /\ ain = 0
  /\ line = 0
  /\ outbuf = 0
  /\ sent = [k \in 1 .. RowLen |-> framebuffer_1[(ARGB_MAX_Y - 1) * RowLen + k - 1]]
  /\ rowsel = ARGB_MAX_Y - 1
  /\ led = 0
  /\ ARGB_user_frame = 1
  /\ ARGB_clock_ms = 1000 - MaxFrames * FrameMs
  /\ ARGB_clock_tod = MaxSeconds
  /\ ARGB_adcdata = [i \in 0 .. (ARGB_MAX_Y - 1) |-> 0]
  /\ shown = [r \in 0 .. (ARGB_MAX_Y - 1) |->
               [k \in 1 .. RowLen |-> framebuffer_1[r * RowLen + k - 1]]]
  /\ iflag = TRUE
  /\ pcSet = "idle"
  /\ new_tod = 0
  /\ secs = MaxSeconds

NextTear ==
  \/ CopyAltToMain_row
  \/ ISR

SpecTear == InitTear /\ [][NextTear]_vars

\* the scanned display with foreground calls made between the interrupts
NextScan ==
  \/ ISR
  \/ CallClear
  \/ CallCornerPixel
  \/ CallCopyAltToMain
  \/ CallCopyMainToAlt
  \/ SelectMainBuffer
  \/ SelectAltBuffer
  \/ Return

SpecScan == InitTear /\ [][NextScan]_vars


\* ------------------------------------------------------------ reading the state

\* the array the call drew into, now and before the call
Selected == IF framebuffer = 1 THEN framebuffer_1 ELSE framebuffer_2
Other == IF framebuffer = 1 THEN framebuffer_2 ELSE framebuffer_1
SelectedBefore(i) == Background(bg, framebuffer, i)
OtherBefore(i) == Background(bg, 3 - framebuffer, i)
OtherUntouched == \A i \in 0 .. (FBSIZE - 1) : Other[i] = OtherBefore(i)
SelectedUntouched == \A i \in 0 .. (FBSIZE - 1) : Selected[i] = SelectedBefore(i)

\* The byte holding channel ch (0 = R, 1 = G, 2 = B) of pixel (x, y): rows
\* top to bottom, within a row the pixels right to left, R, G, B per pixel.
ChannelAt(x, y, ch) == 3 * (y * ARGB_MAX_X + (ARGB_MAX_X - 1 - x)) + ch

\* channel ch of a packed colour {B, G, R, A}
ColorChannel(color, ch) == color[3 - ch]
ColorAlpha(color) == color[4]

\* every byte of both arrays except the three of pixel (x, y) is as before
OnlyPixelTouched(x, y) ==
  LET p == ChannelAt(x, y, 0)
  IN  /\ \A i \in 0 .. (p - 1) : Selected[i] = SelectedBefore(i)
      /\ \A i \in (p + 3) .. (FBSIZE - 1) : Selected[i] = SelectedBefore(i)
      /\ OtherUntouched
      /\ ~stray

\* ------------------------------------------------------------ claims C1, C2

\* C1 as stated: alpha byte 255 leaves every channel of the pixel unchanged,
\* alpha byte 0 stores exactly the colour's R, G, B.
C1_InvertedAlpha ==
  last.op = "SetPixel" =>
    LET x == last.args[1]
        y == last.args[2]
    IN  /\ ColorAlpha(last.color) = 255 => SelectedUntouched
        /\ ColorAlpha(last.color) = 0 =>
             \A ch \in 0 .. 2 :
               Selected[ChannelAt(x, y, ch)] = ColorChannel(last.color, ch)

\* C1 amended: for every in-range pixel, background and colour, alpha byte
\* 255 stores exactly the colour's R, G, B (the direct overwrite) and alpha
\* byte 0 stores (255 * bg) div 256 in each channel (bg - 1 for bg > 0, and
\* 0 for bg = 0); no other byte changes.
C1_AlphaExtremes ==
  last.op = "SetPixel" =>
    LET x == last.args[1]
        y == last.args[2]
    IN  /\ OnlyPixelTouched(x, y)
        /\ ColorAlpha(last.color) = 255 =>
             \A ch \in 0 .. 2 :
               Selected[ChannelAt(x, y, ch)] = ColorChannel(last.color, ch)
        /\ ColorAlpha(last.color) = 0 =>
             \A ch \in 0 .. 2 :
               LET b == SelectedBefore(ChannelAt(x, y, ch))
               IN  /\ Selected[ChannelAt(x, y, ch)] = (255 * b) \div 256
                   /\ Selected[ChannelAt(x, y, ch)] = IF b = 0 THEN 0 ELSE b - 1

\* an alpha byte 255 call replaced a pixel of another colour
C1_Witness ==
  /\ last.op = "SetPixel"
  /\ ColorAlpha(last.color) = 255
  /\ \E ch \in 0 .. 2 :
       /\ SelectedBefore(ChannelAt(last.args[1], last.args[2], ch))
            # ColorChannel(last.color, ch)
       /\ Selected[ChannelAt(last.args[1], last.args[2], ch)]
            = ColorChannel(last.color, ch)

\* C2: for 0 < a < 255 each channel of the pixel becomes
\* ((255 - a) * bg + a * fg) div 256; the sum fits 16 bits and the stored
\* value is a byte; no other byte changes.
C2_BlendFormula ==
  (last.op = "SetPixel" /\ ColorAlpha(last.color) \in 1 .. 254) =>
    LET x == last.args[1]
        y == last.args[2]
        a == ColorAlpha(last.color)
    IN  /\ OnlyPixelTouched(x, y)
        /\ \A ch \in 0 .. 2 :
             LET b == SelectedBefore(ChannelAt(x, y, ch))
                 f == ColorChannel(last.color, ch)
             IN  /\ (255 - a) * b + a * f < 65536
                 /\ Selected[ChannelAt(x, y, ch)] = ((255 - a) * b + a * f) \div 256
                 /\ Selected[ChannelAt(x, y, ch)] \in 0 .. 255

\* a blend whose result is neither the background nor the colour
C2_Witness ==
  /\ last.op = "SetPixel"
  /\ ColorAlpha(last.color) \in 1 .. 254
  /\ \E ch \in 0 .. 2 :
       LET v == Selected[ChannelAt(last.args[1], last.args[2], ch)]
       IN  /\ v # SelectedBefore(ChannelAt(last.args[1], last.args[2], ch))
           /\ v # ColorChannel(last.color, ch)

\* ------------------------------------------------------------ claims C3, C4

\* every SetPixel call the last operation made was given a pixel of the buffer
CallsInRange ==
  \A k \in 1 .. Len(calls) :
    /\ calls[k][1] >= 0
    /\ calls[k][1] < ARGB_MAX_X
    /\ calls[k][2] >= 0
    /\ calls[k][2] < ARGB_MAX_Y

\* no byte outside the selected framebuffer was modified
NothingOutsideSelected == OtherUntouched /\ ~stray

\* C3 as stated: for every centre and radius every SetPixel call DrawCircle
\* issues has 0 <= x < ARGB_MAX_X and 0 <= y < ARGB_MAX_Y, and no byte
\* outside the selected framebuffer is modified.
C3_CircleClipped ==
  last.op = "DrawCircle" => (CallsInRange /\ NothingOutsideSelected)

\* C4 as stated: for every px and py every SetPixel call DrawChar issues has
\* 0 <= x < ARGB_MAX_X and 0 <= y < ARGB_MAX_Y.
C4_CharClipped == last.op = "DrawChar" => CallsInRange

\* ------------------------------------------------------------ claim C6

\* C6 as stated: after Fill(c) every pixel of the selected buffer holds the
\* colour's R channel in its R slot, G in its G slot and B in its B slot
\* (what an opaque SetPixel of c stores), whatever the alpha byte.
C6_FillOwnChannels ==
  last.op = "Fill" =>
    \A x \in XOnBuffer, y \in YOnBuffer, ch \in 0 .. 2 :
      Selected[ChannelAt(x, y, ch)] = ColorChannel(last.color, ch)

\* ------------------------------------------------------------ claim C7

\* channel ch of the pixel in column c of row y, after and before the call
PixelNow(c, y, ch) == Selected[ChannelAt(c, y, ch)]
PixelBefore(c, y, ch) == SelectedBefore(ChannelAt(c, y, ch))

\* C7: ScrollLeft(k), 0 <= k < width, leaves in column c of every row the
\* colour column c + k of that row held before, for c < width - k, and black
\* for c >= width - k; the other buffer and all other memory are unchanged.
C7_ScrollLeft ==
  last.op = "ScrollLeft" =>
    LET k == last.args[1]
    IN  /\ \A y \in YOnBuffer, c \in XOnBuffer, ch \in 0 .. 2 :
             PixelNow(c, y, ch) = IF c < ARGB_MAX_X - k
                                    THEN PixelBefore(c + k, y, ch)
                                    ELSE 0
        /\ NothingOutsideSelected

\* C7 witness: a scroll by at least one column moved differing colours and
\* blanked columns that were not black
C7_Witness ==
  /\ last.op = "ScrollLeft"
  /\ last.args[1] >= 1
  /\ \E y \in YOnBuffer, ch \in 0 .. 2 :
       /\ PixelNow(0, y, ch) # PixelBefore(0, y, ch)
       /\ PixelNow(0, y, ch) # 0
       /\ PixelBefore(ARGB_MAX_X - 1, y, ch) # 0
       /\ y >= 1

\* ------------------------------------------------------------ claim C5

\* the pixels the last operation handed to SetPixel, and the pixels of the
\* selected buffer it changed
CallSet == {calls[k] : k \in 1 .. Len(calls)}
BufferPixels == XOnBuffer \X YOnBuffer
Written ==
  {p \in BufferPixels :
     \E ch \in 0 .. 2 : PixelNow(p[1], p[2], ch) # PixelBefore(p[1], p[2], ch)}

\* The requested shapes, as the pixels of the buffer they contain.  They are
\* stated over the integers: a coordinate or length is the number asked for.

\* w pixels from (x, y) to the right / downwards
HLinePixels(x, y, w) ==
  {p \in BufferPixels : p[2] = y /\ p[1] >= x /\ p[1] < x + w}
VLinePixels(x, y, w) ==
  {p \in BufferPixels : p[1] = x /\ p[2] >= y /\ p[2] < y + w}

\* the border of the rectangle with corners (x1, y1) and (x2, y2)
RectOutline(x1, y1, x2, y2) ==
  {p \in BufferPixels :
     /\ p[1] >= x1 /\ p[1] <= x2 /\ p[2] >= y1 /\ p[2] <= y2
     /\ (p[1] \in {x1, x2} \/ p[2] \in {y1, y2})}

\* the w by h rectangle with top left corner (x, y)
RectPixels(x, y, w, h) ==
  {p \in BufferPixels :
     p[1] >= x /\ p[1] < x + w /\ p[2] >= y /\ p[2] < y + h}

\* the set bits of digit glyph digit, its top left corner at (px, py)
GlyphPixels(digit, px, py) ==
  {p \in BufferPixels :
     /\ p[1] - px \in 0 .. 2
     /\ p[2] - py \in 0 .. 7
     /\ Bit(numberFont[digit + 1][p[1] - px + 1], p[2] - py) = 1}

\* The line from (x0, y0) to (x1, y1), by the incremental error walk over the
\* integers.  A walk state is <<x, y, err, live>>; ln = <<x1, y1, dx, sx, dy, sy>>.
LineWalkStep(s, ln) ==
  LET e2    == 2 * s[3]
      stepX == e2 >= ln[5]
      stepY == e2 <= ln[3]
  IN  IF ~s[4] THEN s
      ELSE IF stepX /\ s[1] = ln[1] THEN <<s[1], s[2], s[3], FALSE>>
      ELSE IF stepY /\ s[2] = ln[2] THEN <<s[1], s[2], s[3], FALSE>>
      ELSE <<IF stepX THEN s[1] + ln[4] ELSE s[1],
             IF stepY THEN s[2] + ln[6] ELSE s[2],
             s[3] + (IF stepX THEN ln[5] ELSE 0) + (IF stepY THEN ln[3] ELSE 0),
             TRUE>>

\* the pixel of a walk state, if it is live and on the buffer
LineWalkPixel(s) ==
  IF s[4] /\ <<s[1], s[2]>> \in BufferPixels THEN {<<s[1], s[2]>>} ELSE {}

RECURSIVE LineWalk(_, _, _)
\* four steps of the walk at a time
LineWalk(s, ln, acc) ==
  LET s1 == LineWalkStep(s, ln)
      s2 == LineWalkStep(s1, ln)
      s3 == LineWalkStep(s2, ln)
      s4 == LineWalkStep(s3, ln)
      a4 == acc \cup LineWalkPixel(s) \cup LineWalkPixel(s1)
                \cup LineWalkPixel(s2) \cup LineWalkPixel(s3)
  IN  IF a4 = {} /\ ~s4[4] THEN {}
      ELSE IF s4[4] THEN LineWalk(s4, ln, a4) ELSE a4

LinePixels(x0, y0, x1, y1) ==
  LET dx == Abs(x1 - x0)
      dy == -Abs(y1 - y0)
  IN  LineWalk(<<x0, y0, dx + dy, TRUE>>,
               <<x1, y1, dx, IF x0 < x1 THEN 1 ELSE -1,
                 dy, IF y0 < y1 THEN 1 ELSE -1>>, {})

\* The filled circle of radius r about (poX, poY), by the midpoint walk over
\* the integers from x = -r to x = 0: at each step the vertical spans of 2y
\* pixels from row poY - y in columns poX - x and poX + x.  A walk state is
\* <<x, y, err>>, finished once x > 0.
DiscWalkStep(s) ==
  LET stepY == s[3] <= s[2]
      y2    == IF stepY THEN s[2] + 1 ELSE s[2]
      err2  == IF stepY THEN s[3] + 2 * y2 + 1 ELSE s[3]
      e2    == IF stepY /\ -s[1] = y2 /\ s[3] <= s[1] THEN 0 ELSE s[3]
      stepX == e2 > s[1]
      x2    == IF stepX THEN s[1] + 1 ELSE s[1]
  IN  IF s[1] > 0 THEN s
      ELSE <<x2, y2, IF stepX THEN err2 + 2 * x2 + 1 ELSE err2>>

DiscWalkSpans(poX, poY, s) ==
  IF s[1] > 0 THEN {}
  ELSE VLinePixels(poX - s[1], poY - s[2], 2 * s[2])
         \cup VLinePixels(poX + s[1], poY - s[2], 2 * s[2])

RECURSIVE DiscWalk(_, _, _, _)
\* four steps of the walk at a time
DiscWalk(poX, poY, s, acc) ==
  LET s1 == DiscWalkStep(s)
      s2 == DiscWalkStep(s1)
      s3 == DiscWalkStep(s2)
      s4 == DiscWalkStep(s3)
      a4 == acc \cup DiscWalkSpans(poX, poY, s) \cup DiscWalkSpans(poX, poY, s1)
                \cup DiscWalkSpans(poX, poY, s2) \cup DiscWalkSpans(poX, poY, s3)
  IN  IF a4 = {} /\ s4[1] > 0 THEN {}
      ELSE IF s4[1] > 0 THEN a4 ELSE DiscWalk(poX, poY, s4, a4)

DiscPixels(poX, poY, r) == DiscWalk(poX, poY, <<-r, 0, 2 - 2 * r>>, {})

\* the digits BlendDigits draws, each at its row
BlendPixels(digit1, digit2, blend, px, py) ==
  LET bl    == IF digit1 = digit2 THEN 0 ELSE blend
      shift == bl \div 32
  IN  (IF digit1 # 255 THEN GlyphPixels(digit1, px, py - shift) ELSE {})
        \cup (IF bl # 0 /\ digit2 # 255
                THEN GlyphPixels(digit2, px, py - shift + 7)
                ELSE {})

\* the pixels of the buffer the last shape call asked for
Requested ==
  LET a == last.args
  IN  CASE last.op = "HLine" -> HLinePixels(a[1], a[2], a[3])
        [] last.op = "VLine" -> VLinePixels(a[1], a[2], a[3])
        [] last.op = "DrawRect" -> RectOutline(a[1], a[2], a[3], a[4])
        [] last.op = "FillRect" -> RectPixels(a[1], a[2], a[3], a[4])
        [] last.op = "FillCircle" -> DiscPixels(a[1], a[2], a[3])
        [] last.op = "DrawLine" -> LinePixels(a[1], a[2], a[3], a[4])
        [] last.op = "DrawDigit" -> GlyphPixels(a[1], a[2], a[3])
        [] last.op = "BlendDigits" -> BlendPixels(a[1], a[2], a[3], a[4], a[5])
        [] OTHER -> {}

ClippedShapes ==
  {"HLine", "VLine", "DrawRect", "FillRect", "FillCircle", "DrawLine",
   "DrawDigit", "BlendDigits"}

\* C5 as stated: for every origin and every length or extent 0..255, HLine,
\* VLine, DrawRect, FillRect, FillCircle, DrawLine, DrawDigit and BlendDigits
\* hand SetPixel in-range coordinates only, and the pixels written are exactly
\* those of the requested span or shape that lie on the buffer (none when an
\* HLine's row or a VLine's column is off the buffer).
C5_ShapesClipped ==
  last.op \in ClippedShapes =>
    /\ CallsInRange
    /\ NothingOutsideSelected
    /\ CallSet = Requested
    /\ Written = Requested

\* ------------------------------------------------------------ claim C8

\* the last call was BlendDigits with two different digits, neither of them
\* the draw-nothing value
BlendTwoDigits ==
  /\ last.op = "BlendDigits"
  /\ last.args[1] # last.args[2]
  /\ last.args[1] # 255
  /\ last.args[2] # 255

\* C8 as stated: BlendDigits(digit1, digit2, blend, px, py) with
\* digit1 # digit2, both # 255, draws digit1 at row py - blend/32 and digit2
\* at row py - (blend/32 + 7).
C8_BothShiftedUp ==
  BlendTwoDigits =>
    LET a     == last.args
        shift == a[3] \div 32
    IN  Written = GlyphPixels(a[1], a[4], a[5] - shift)
                    \cup GlyphPixels(a[2], a[4], a[5] - (shift + 7))

\* C8 amended: BlendDigits(digit1, digit2, blend, px, py) with
\* digit1 # digit2, both # 255, draws digit1 at row py - blend/32 and, when
\* blend # 0, digit2 seven rows below it, at row py - blend/32 + 7; when
\* blend = 0 it draws digit1 only.
C8_SecondDigitBelow ==
  BlendTwoDigits =>
    LET a     == last.args
        shift == a[3] \div 32
        both  == GlyphPixels(a[1], a[4], a[5] - shift)
                   \cup (IF a[3] # 0
                           THEN GlyphPixels(a[2], a[4], a[5] - shift + 7)
                           ELSE {})
    IN  /\ CallSet = both
        /\ Written = both

\* C8 witness: BlendDigits(3, 4, 128, 0, 0) drew rows of the 3 at the top of
\* the buffer and rows of the 4 from row 3 down
C8_Witness ==
  /\ BlendTwoDigits
  /\ last.args = <<3, 4, 128, 0, 0>>
  /\ \E p \in Written : p[2] >= 4
  /\ \E p \in Written : p[2] = 0
  /\ Written # GlyphPixels(3, 0, -4)

\* ------------------------------------------------------------ claim C9

\* the non-empty columns of the glyph DrawChar draws for character ascii
GlyphColumns(ascii) ==
  LET code == IF ascii < 32 \/ ascii > 126 THEN 45 ELSE ascii
  IN  {i \in 0 .. 7 : simpleFont(code - 32, i) # 0}

LeftmostColumn(cols) == CHOOSE i \in cols : \A j \in cols : i <= j
RightmostColumn(cols) == CHOOSE i \in cols : \A j \in cols : i >= j

\* C9 as stated: DrawChar returns the index of the leftmost non-empty column
\* of the character's bitmap, whatever px and py and the clipping; codes
\* below 0x20 or above 0x7E return that of the hyphen.
C9_LeftmostColumn ==
  (last.op = "DrawChar" /\ GlyphColumns(last.args[1]) # {}) =>
    ret = LeftmostColumn(GlyphColumns(last.args[1]))

\* C9 amended: DrawChar returns the index of the rightmost (highest) non-empty
\* column of the character's bitmap, and 0 for a bitmap with no column set,
\* whatever px and py and the clipping; codes below 0x20 or above 0x7E
\* return that of the hyphen.
C9_RightmostColumn ==
  last.op = "DrawChar" =>
    LET cols == GlyphColumns(last.args[1])
    IN  ret = IF cols = {} THEN 0 ELSE RightmostColumn(cols)

\* C9 witness: a glyph with several non-empty columns, its rightmost one
\* clipped away, and the rightmost column's index returned
C9_Witness ==
  /\ last.op = "DrawChar"
  /\ LET cols == GlyphColumns(last.args[1])
     IN  /\ cols # {}
         /\ LeftmostColumn(cols) # RightmostColumn(cols)
         /\ last.args[2] + RightmostColumn(cols) >= ARGB_MAX_X
         /\ last.args[2] + LeftmostColumn(cols) < ARGB_MAX_X
         /\ ret = RightmostColumn(cols)
         /\ ret # 0

\* ------------------------------------------------------------ claim C10

\* C10: in every reachable state ARGB_clock_tod is in 0..86399; outside the
\* two statements of ARGB_SetTime that store the new time it is the time last
\* set (0 at the start) plus the seconds since, modulo 86400, so the second
\* after 86399 is 0.
C10_TodInDay ==
  /\ ARGB_clock_tod \in 0 .. (DAY_SECONDS - 1)
  /\ pcSet \in {"idle", "sei"} =>
       ARGB_clock_tod = (new_tod + secs) % DAY_SECONDS

\* C10 witness: the clock was set to 86399 and the next second made it 0
C10_Witness ==
  /\ pcSet = "idle"
  /\ new_tod = DAY_SECONDS - 1
  /\ secs = 1
  /\ ARGB_clock_tod = 0
  /\ ARGB_clock_ms = 0

\* ------------------------------------------------------------ claim C11

\* C11: ARGB_SetTime is atomic for the periodic task: the task runs only while
\* no ARGB_SetTime call is between its cli() and its sei(), so never between
\* the write of ARGB_clock_ms and the write of ARGB_clock_tod; and when
\* ARGB_SetTime has returned the task is enabled.
C11_SetTimeAtomic ==
  [][/\ ISR => (pcSet = "idle" /\ pcSet' = "idle")
     /\ pcSet' = "idle" => iflag']_vars

\* C11 witness: a call is between its two writes (ARGB_clock_ms reset,
\* ARGB_clock_tod still the old time) in the middle of a frame, with the
\* task held off
C11_Witness ==
  /\ pcSet = "tod"
  /\ ARGB_clock_ms = 0
  /\ ARGB_clock_tod # new_tod
  /\ line # 0
  /\ ~iflag

\* ------------------------------------------------------------ claim C12

\* row r of the main buffer before the copy, and of the picture copied in
OldRow(r) == [k \in 1 .. RowLen |-> Background(bg, 1, r * RowLen + k - 1)]
NewRow(r) == [k \in 1 .. RowLen |-> Background(bg, 2, r * RowLen + k - 1)]

\* C12: the main buffer is updated with no locking: the interrupts stay
\* enabled all through a foreground copy into it, and every row the periodic
\* task transmits is the row as the main buffer held it at that moment, the
\* old row or the new one; before the copy starts every row shown is old.
C12_NoLocking ==
  /\ (pcCopy > 0 /\ pcCopy < FBSIZE) => iflag
  /\ \A r \in 0 .. (ARGB_MAX_Y - 1) : shown[r] \in {OldRow(r), NewRow(r)}
  /\ pcCopy = 0 => \A r \in 0 .. (ARGB_MAX_Y - 1) : shown[r] = OldRow(r)

\* C12 witness, the torn frame: a frame has just been transmitted whole (row
\* 0 to row 7) and holds a row of the old picture and a row of the new one
C12_TornFrame ==
  /\ line = 0
  /\ rowsel = ARGB_MAX_Y - 1
  /\ \A r \in 0 .. (ARGB_MAX_Y - 1) : OldRow(r) # NewRow(r)
  /\ \E r1, r2 \in 0 .. (ARGB_MAX_Y - 1) :
       /\ shown[r1] = OldRow(r1)
       /\ shown[r2] = NewRow(r2)

\* ------------------------------------------------------------ claim C13

\* a Fade call is made in this step
FadeStep == last'.op = "Fade" /\ ncalls' = ncalls + 1

\* C13: every Fade(f) call replaces each byte c of the selected buffer by
\* (f * c) div 256 and leaves the other buffer alone; no byte ever grows;
\* Fade(255) lowers a byte by at most 1; and once Fade(255) has been applied
\* 255 times or more every byte of the selected buffer is 0.
C13_Fade ==
  /\ [][FadeStep =>
          /\ \A i \in 0 .. (FBSIZE - 1) :
               /\ Selected'[i] = (last'.args[1] * Selected[i]) \div 256
               /\ Selected'[i] <= Selected[i]
               /\ last'.args[1] = 255 => Selected[i] - Selected'[i] <= 1
          /\ Other' = Other]_vars
  /\ [](last.op = "Fade" /\ last.args = <<255>> /\ ncalls >= 255
          => \A i \in 0 .. (FBSIZE - 1) : Selected[i] = 0)

\* C13 witness: a buffer that held 255 in every byte has been through
\* Fade(255) 255 times and has just become all 0
C13_Witness ==
  /\ last.op = "Fade"
  /\ last.args = <<255>>
  /\ ncalls = 255
  /\ bg = 1
  /\ \A i \in 0 .. (FBSIZE - 1) : Selected[i] = 0 /\ SelectedBefore(i) = 255

\* ------------------------------------------------------------ claim C14

\* row r of a buffer, in memory order
RowOf(buffer, r) == [k \in 1 .. RowLen |-> buffer[r * RowLen + k - 1]]

\* C14: whatever the foreground draws, selects or copies, the row index is in
\* 0..ARGB_MAX_Y-1 and the transmit cursor is at byte line*3*ARGB_MAX_X of the
\* main buffer, a whole row before its end; each invocation serializes that
\* row of the main buffer in memory order, selects that row on the decoder,
\* stores the analog sample at that index, and goes on to the next row,
\* cyclically, the row following the one transmitted before.
C14_RowScan ==
  /\ [](/\ line \in 0 .. (ARGB_MAX_Y - 1)
        /\ outbuf = line * RowLen
        /\ outbuf + RowLen <= FBSIZE)
  /\ [][ISR =>
          /\ sent' = RowOf(framebuffer_1, line)
          /\ shown' = [shown EXCEPT ![line] = RowOf(framebuffer_1, line)]
          /\ rowsel' = line
          /\ rowsel' = (rowsel + 1) % ARGB_MAX_Y
          /\ ARGB_adcdata' = [ARGB_adcdata EXCEPT ![line] = ain]
          /\ line' = (line + 1) % ARGB_MAX_Y
          /\ framebuffer_1' = framebuffer_1
          /\ framebuffer_2' = framebuffer_2
          /\ framebuffer' = framebuffer]_vars

\* C14 witness: the alt buffer is selected and has been cleared, the scan has
\* wrapped round, and row 0 has just been transmitted from the main buffer,
\* which differs from row 0 of the alt buffer
C14_Witness ==
  /\ framebuffer = 2
  /\ last.op = "Clear"
  /\ ARGB_clock_ms = 1000 - FrameMs
  /\ line = 1
  /\ rowsel = 0
  /\ sent = RowOf(framebuffer_1, 0)
  /\ sent # RowOf(framebuffer_2, 0)

\* ------------------------------------------------------------ claim C15

\* invocations of the periodic task since the clock was set (or since init()
\* when it never was), read off the clock: 1000 per second, 8 per frame
Ticks == 1000 * secs + ARGB_clock_ms + line

\* C15: ARGB_clock_ms is always a multiple of 8 below 1000.  An invocation
\* that does not transmit the last row changes neither ARGB_clock_ms nor
\* ARGB_clock_tod nor ARGB_user_frame; the one that transmits the last row
\* sets ARGB_user_frame to 1 and adds 8 to ARGB_clock_ms, and when that makes
\* 1000 it puts ARGB_clock_ms back to 0 and takes ARGB_clock_tod to the next
\* second, and only then.  Every invocation is one tick out of 1000 to the
\* second (125 frames), and no invocation clears ARGB_user_frame.
C15_ClockAtWrap ==
  /\ [](ARGB_clock_ms % 8 = 0 /\ ARGB_clock_ms >= 0 /\ ARGB_clock_ms < 1000)
  /\ [][ISR =>
          /\ line # ARGB_MAX_Y - 1 =>
               /\ ARGB_clock_ms' = ARGB_clock_ms
               /\ ARGB_clock_tod' = ARGB_clock_tod
               /\ ARGB_user_frame' = ARGB_user_frame
          /\ line = ARGB_MAX_Y - 1 =>
               /\ ARGB_user_frame' = 1
               /\ ARGB_clock_ms' =
                    IF ARGB_clock_ms + 8 = 1000 THEN 0 ELSE ARGB_clock_ms + 8
               /\ ARGB_clock_tod' =
                    IF ARGB_clock_ms + 8 = 1000
                      THEN (ARGB_clock_tod + 1) % 86400 ELSE ARGB_clock_tod
          /\ Ticks' = Ticks + 1
          /\ (ARGB_clock_tod' # ARGB_clock_tod) = (Ticks' % 1000 = 0)
          /\ ARGB_user_frame = 1 => ARGB_user_frame' = 1]_vars

\* C15 witness: 1000 invocations (125 frames) after the clock started from
\* 0:00:00 with no ARGB_SetTime call under way, the first second has just
\* been counted
C15_Witness ==
  /\ new_tod = 0
  /\ pcSet = "idle"
  /\ Ticks = 1000
  /\ ARGB_clock_ms = 0
  /\ ARGB_clock_tod = 1
  /\ ARGB_user_frame = 1
  /\ sent = [k \in 1 .. RowLen |-> framebuffer_1[(ARGB_MAX_Y - 1) * RowLen + k - 1]]

\* ------------------------------------------------------------ claim C16

\* the outline as the claim lists it: rows y1 and y2 for x1..x2, columns x1
\* and x2 for y1+1..y2-1
OutlineRows(x1, y1, x2, y2) == (x1 .. x2) \X {y1, y2}
OutlineSides(x1, y1, x2, y2) == {x1, x2} \X ((y1 + 1) .. (y2 - 1))
Outline(x1, y1, x2, y2) ==
  OutlineRows(x1, y1, x2, y2) \cup OutlineSides(x1, y1, x2, y2)

\* channel ch of pixel p holds its earlier value blended once with the colour
BlendedOnce(p, ch) ==
  PixelNow(p[1], p[2], ch) =
    IF ColorAlpha(last.color) = 255
      THEN ColorChannel(last.color, ch)
      ELSE ((255 - ColorAlpha(last.color)) * PixelBefore(p[1], p[2], ch)
            + ColorAlpha(last.color) * ColorChannel(last.color, ch)) \div 256

\* C16: DrawRect(x1, y1, x2, y2) with 0 <= x1 < x2 < ARGB_MAX_X and
\* 0 <= y1 < y2 < ARGB_MAX_Y calls SetPixel once for each pixel of the
\* outline and for no other pixel; each outline pixel holds its earlier value
\* blended once with the colour, every other pixel of the selected buffer and
\* all of the other buffer are as before; for DrawRect(1,1,6,6) the pixels
\* drawn are those of rows and columns 1 and 6 between 1 and 6.
C16_DrawRectOutline ==
  (/\ last.op = "DrawRect"
   /\ 0 <= last.args[1] /\ last.args[1] < last.args[3] /\ last.args[3] < ARGB_MAX_X
   /\ 0 <= last.args[2] /\ last.args[2] < last.args[4] /\ last.args[4] < ARGB_MAX_Y)
  => LET o == Outline(last.args[1], last.args[2], last.args[3], last.args[4])
     IN  /\ CallSet = o
         /\ Len(calls) = Cardinality(o)
         /\ \A p \in o : \A ch \in 0 .. 2 : BlendedOnce(p, ch)
         /\ \A p \in BufferPixels \ o : \A ch \in 0 .. 2 :
              PixelNow(p[1], p[2], ch) = PixelBefore(p[1], p[2], ch)
         /\ NothingOutsideSelected
         /\ last.args = <<1, 1, 6, 6>> =>
              CallSet = {p \in (1 .. 6) \X (1 .. 6) : p[1] \in {1, 6} \/ p[2] \in {1, 6}}

\* C16 witness: DrawRect(1,1,6,6) in a partly transparent colour has drawn
\* its twenty outline pixels, the corner (1,1) among them, and left the
\* interior pixel (2,2) and the exterior pixel (0,0) alone
C16_Witness ==
  /\ last.op = "DrawRect"
  /\ last.args = <<1, 1, 6, 6>>
  /\ ColorAlpha(last.color) \notin {0, 255}
  /\ Len(calls) = 20
  /\ <<1, 1>> \in Written
  /\ <<2, 2>> \notin Written
  /\ <<0, 0>> \notin Written

=============================================================================
